---- MODULE Spec2Model ----
(***************************************************************************)
(* Model of realtime_action_hub.py: the ConnectionManager registry, its    *)
(* broadcast loop, the /send_action handler and the /ws session handler.   *)
(* Every coroutine is a task; a task runs atomically from one await to the *)
(* next (single-threaded asyncio), so each action below is the code that   *)
(* runs between two suspension points.                                     *)
(***************************************************************************)
EXTENDS Integers, Sequences, FiniteSets, TLC

\* Bounds of the model.
NumSessions == 2
NumRequests == 1
MaxFrames == 1

Sessions == 1..NumSessions
Requests == (NumSessions + 1)..(NumSessions + NumRequests)
Tasks == Sessions \cup Requests

\* The Literal of send_action's parameter, and the tokens a client may post
\* (one of them outside the Literal).
ValidActions == {"pull", "push", "right", "left", "rotateForwards", "rotateReverse"}
Tokens == ValidActions \cup {"jump"}

\* The "status" field that tells the three lifecycle notifications apart.
JoinMsg == "connected"
LeaveMsg == "disconnected"
ErrorMsg == "error"

VARIABLES
    active_connections,   \* manager.active_connections, a Python list
    chan,                 \* per session: the client's side of the socket, "open" or "closed"
    pc,                   \* per task: the await it is suspended at
    message,              \* per task: broadcast's parameter
    it,                   \* per task: the index of the list iterator of line 35
    connection,           \* per task: the loop variable of line 35
    disconnected_sockets, \* per task: the local list of line 34
    action,               \* per request: the posted token
    ack,                  \* per request: the HTTP response
    received,             \* number of inbound frames logged at line 132
    inbox,                \* per session: what its client received, in order (history)
    call,                 \* per task: the record of its latest broadcast call (history)
    registered,           \* sessions connect() appended (history)
    order,                \* the same sessions, in the order of the appends (history)
    unregistered          \* sessions list.remove was called for (history)

vars == <<active_connections, chan, pc, message, it, connection,
          disconnected_sockets, action, ack, received, inbox, call,
          registered, order, unregistered, order>>

NoCall == [state |-> "none", msg |-> "", start |-> <<>>, tried |-> <<>>,
           ok |-> {}, failed |-> <<>>, dirty |-> FALSE, after |-> <<>>,
           ret |-> <<>>, log |-> 0, removed |-> {}, before |-> {}]
NoAck == [status |-> "none", action |-> "", count |-> 0]

Range(seq) == {seq[i] : i \in 1..Len(seq)}

\* Python's `x in list`.
Contains(list, x) == \E i \in 1..Len(list) : list[i] = x

\* Python's list.remove(x): drops the first occurrence, ValueError when absent.
ListRemove(list, x) ==
    IF Contains(list, x)
    THEN LET k == CHOOSE i \in 1..Len(list) :
                      list[i] = x /\ \A j \in 1..(i - 1) : list[j] # x
         IN [ok |-> TRUE,
             list |-> [i \in 1..(Len(list) - 1) |-> IF i < k THEN list[i] ELSE list[i + 1]]]
    ELSE [ok |-> FALSE, list |-> list]

\* The append of connect(), line 23.
RegisterTwice(list, ws) == Append(Append(list, ws), ws)
Register(list, ws) == Append(list, ws)

\* disconnect(), lines 26-29: an unguarded list.remove.
DisconnectAppends(list, ws) == [ok |-> TRUE, list |-> Append(list, ws)]
Disconnect(list, ws) == ListRemove(list, ws)

\* The guard of broadcast's cleanup, line 49.
CleanupGuardAlways(list, socket) == TRUE
CleanupGuardNever(list, socket) == FALSE
CleanupGuard(list, socket) == Contains(list, socket)

\* broadcast's cleanup loop, lines 48-50: the registry it leaves, whether it
\* raised, and the sockets it called remove for.
RECURSIVE Cleanup(_, _)
Cleanup(list, failed) ==
    IF failed = <<>>
    THEN [ok |-> TRUE, list |-> list, called |-> {}]
    ELSE LET socket == Head(failed) IN
         IF CleanupGuard(list, socket)
         THEN LET r == ListRemove(list, socket) IN
              IF r.ok
              THEN LET rest == Cleanup(r.list, Tail(failed)) IN
                   [ok |-> rest.ok, list |-> rest.list,
                    called |-> {socket} \cup rest.called]
              ELSE [ok |-> FALSE, list |-> list, called |-> {socket}]
         ELSE Cleanup(list, Tail(failed))

\* What broadcast returns (it has no return statement: None is <<>>, a count
\* n would be <<n>>), and the count its last line logs, lines 52-54.
BroadcastResultCount(delivered, list) == <<delivered>>
BroadcastResult(delivered, list) == <<>>
LoggedCount(list) == Len(list)

\* The validation of send_action's parameter against its Literal, line 69.
ValidateAny(a) == TRUE
Validate(a) == a \in ValidActions

\* send_action's translation, lines 78-87.
TranslateIdentity(a) == a
Translate(a) ==
    IF a = "left" THEN "right"
    ELSE IF a = "right" THEN "left"
    ELSE IF a = "rotateForwards" THEN "up"
    ELSE IF a = "rotateReverse" THEN "down"
    ELSE a

\* The success response of send_action, lines 91-94.
SuccessAckOffByOne(a, list) == [status |-> "success", action |-> a, count |-> Len(list) + 1]
SuccessAck(a, list) == [status |-> "success", action |-> a, count |-> Len(list)]
\* The HTTPException of lines 95-101.
ErrorAck(a) == [status |-> "error500", action |-> a, count |-> 0]

\* The list iterator of the for loop, line 35: the element it yields at index i
\* (0-based).
IterNextReversed(list, i) == list[Len(list) - i]
IterNext(list, i) == list[i + 1]

\* What the client of a socket has received once send_text of line 38 has
\* sent it the payload of task t's call: frames arrive in the order sent.
DeliverFront(box, t, msg) == <<<<t, msg>>>> \o box
Deliver(box, t, msg) == Append(box, <<t, msg>>)

\* The calls that have returned so far, each named by its caller and payload.
ReturnedCalls ==
    {<<u, call[u].msg>> : u \in {v \in Tasks : call[v].state = "returned"}}
        \cup {<<s, JoinMsg>> : s \in {v \in Sessions : call[v].msg \in {LeaveMsg, ErrorMsg}}}

\* The history records of the other tasks: a broadcast in flight notes that
\* the registry changed under it.
Others(t, list, mine) ==
    [u \in Tasks |->
        IF u = t THEN mine
        ELSE IF pc[u] = "send_text" /\ list # active_connections
             THEN [call[u] EXCEPT !.dirty = TRUE]
             ELSE call[u]]

\* Task t is at the head of broadcast's for loop (line 35) with the registry
\* `list`, the iterator at index i and the local list `failed`; ch is the
\* sockets' state, unreg the sessions remove was called for so far and c the
\* history record of this call.  Either the iterator yields the next
\* connection and the task suspends in send_text, or the loop ends, the
\* cleanup runs, the frame's locals go away and control returns to the
\* caller, which runs to its next await.
LoopHead(t, list, i, failed, ch, unreg, c) ==
    IF i < Len(list)
    THEN /\ active_connections' = list
         /\ it' = [it EXCEPT ![t] = i + 1]
         /\ connection' = [connection EXCEPT ![t] = IterNext(list, i)]
         /\ disconnected_sockets' = [disconnected_sockets EXCEPT ![t] = failed]
         /\ pc' = [pc EXCEPT ![t] = "send_text"]
         /\ chan' = ch
         /\ call' = Others(t, list, [c EXCEPT !.tried = Append(@, IterNext(list, i))])
         /\ unregistered' = unreg
         /\ ack' = ack
    ELSE LET cl == Cleanup(list, failed)
             done == [c EXCEPT !.state = IF cl.ok THEN "returned" ELSE "raised",
                               !.failed = failed,
                               !.after = cl.list,
                               !.ret = BroadcastResult(Cardinality(c.ok), cl.list),
                               !.log = LoggedCount(cl.list),
                               !.removed = cl.called]
         IN /\ active_connections' = cl.list
            /\ it' = [it EXCEPT ![t] = 0]
            /\ connection' = [connection EXCEPT ![t] = 0]
            /\ disconnected_sockets' = [disconnected_sockets EXCEPT ![t] = <<>>]
            /\ unregistered' = unreg \cup cl.called
            /\ call' = Others(t, cl.list, done)
            /\ IF t \in Requests
               THEN \* back in send_action, lines 91-101
                    /\ pc' = [pc EXCEPT ![t] = "done"]
                    /\ ack' = [ack EXCEPT ![t] = IF cl.ok
                                                 THEN SuccessAck(action[t], cl.list)
                                                 ELSE ErrorAck(action[t])]
                    /\ chan' = ch
               ELSE \* back in websocket_endpoint
                    /\ ack' = ack
                    /\ IF cl.ok /\ c.msg = JoinMsg
                       THEN \* lines 126-131: the receive loop
                            /\ pc' = [pc EXCEPT ![t] = "receive_text"]
                            /\ chan' = ch
                       ELSE \* the handler returns (or the fault leaves it)
                            /\ pc' = [pc EXCEPT ![t] = IF cl.ok THEN "done" ELSE "crashed"]
                            /\ chan' = [ch EXCEPT ![t] = "closed"]

\* The call of manager.broadcast(msg) by task t on the registry `list`.
Broadcast(t, list, msg, ch, unreg) ==
    /\ message' = [message EXCEPT ![t] = msg]
    /\ LoopHead(t, list, 0, <<>>, ch, unreg,
                [NoCall EXCEPT !.state = "running", !.msg = msg, !.start = list,
                                !.before = ReturnedCalls])

Init ==
    /\ active_connections = <<>>
    /\ chan = [s \in Sessions |-> "open"]
    /\ pc = [t \in Tasks |-> IF t \in Sessions THEN "init" ELSE "idle"]
    /\ message = [t \in Tasks |-> ""]
    /\ it = [t \in Tasks |-> 0]
    /\ connection = [t \in Tasks |-> 0]
    /\ disconnected_sockets = [t \in Tasks |-> <<>>]
    /\ action = [r \in Requests |-> ""]
    /\ ack = [r \in Requests |-> NoAck]
    /\ received = 0
    /\ inbox = [s \in Sessions |-> <<>>]
    /\ call = [t \in Tasks |-> NoCall]
    /\ registered = {}
    /\ order = <<>>
    /\ unregistered = {}

\* A client opens /ws: websocket_endpoint starts and awaits accept(), line 22.
Connect(s) ==
    /\ pc[s] = "init"
    /\ pc' = [pc EXCEPT ![s] = "accept"]
    /\ UNCHANGED <<active_connections, chan, message, it, connection,
                   disconnected_sockets, action, ack, received, inbox, call,
                   registered, order, unregistered, order>>

\* accept() returns: line 23 registers the socket, lines 117-124 start the
\* join broadcast.
AcceptDone(s) ==
    /\ pc[s] = "accept"
    /\ registered' = registered \cup {s}
    /\ order' = Append(order, s)
    /\ Broadcast(s, Register(active_connections, s), JoinMsg, chan, unregistered)
    /\ UNCHANGED <<action, received, inbox>>

\* The client closes its end of the socket.
ClientClose(s) ==
    /\ chan[s] = "open"
    /\ \/ pc[s] = "receive_text"
       \/ pc[s] = "send_text" /\ message[s] = JoinMsg
    /\ chan' = [chan EXCEPT ![s] = "closed"]
    /\ UNCHANGED <<active_connections, pc, message, it, connection,
                   disconnected_sockets, action, ack, received, inbox, call,
                   registered, order, unregistered, order>>

\* receive_text() returns a frame, lines 131-132: logged and dropped.
ReceiveText(s) ==
    /\ pc[s] = "receive_text"
    /\ chan[s] = "open"
    /\ received < MaxFrames
    /\ received' = received + 1
    /\ UNCHANGED <<active_connections, chan, pc, message, it, connection,
                   disconnected_sockets, action, ack, inbox, call,
                   registered, order, unregistered, order>>

\* The except clauses of websocket_endpoint, lines 134-149: disconnect(), then
\* the leave broadcast.  A ValueError of disconnect() leaves the handler.
Terminate(s, msg) ==
    LET r == Disconnect(active_connections, s) IN
    /\ IF r.ok
       THEN Broadcast(s, r.list, msg, chan, unregistered \cup {s})
       ELSE /\ pc' = [pc EXCEPT ![s] = "crashed"]
            /\ unregistered' = unregistered \cup {s}
            /\ chan' = [chan EXCEPT ![s] = "closed"]
            /\ UNCHANGED <<active_connections, message, it, connection,
                           disconnected_sockets, ack, call>>
    /\ UNCHANGED <<action, received, inbox, registered, order>>

\* receive_text() raises WebSocketDisconnect, lines 134-140.
RecvDisconnect(s) ==
    /\ pc[s] = "receive_text"
    /\ chan[s] = "closed"
    /\ Terminate(s, LeaveMsg)

\* receive_text() raises another exception, lines 141-149.
RecvError(s) ==
    /\ pc[s] = "receive_text"
    /\ chan[s] = "open"
    /\ Terminate(s, ErrorMsg)

\* POST /send_action with a token outside the Literal, lines 68-70: rejected
\* by the parameter validation, the handler body never runs.
RejectAction(r, a) ==
    /\ pc[r] = "idle"
    /\ ~Validate(a)
    /\ pc' = [pc EXCEPT ![r] = "rejected"]
    /\ action' = [action EXCEPT ![r] = a]
    /\ ack' = [ack EXCEPT ![r] = [status |-> "rejected422", action |-> a, count |-> 0]]
    /\ UNCHANGED <<active_connections, chan, message, it, connection,
                   disconnected_sockets, received, inbox, call,
                   registered, order, unregistered, order>>

\* POST /send_action with a valid token, lines 74-89: translate, broadcast.
SendAction(r, a) ==
    /\ pc[r] = "idle"
    /\ Validate(a)
    /\ action' = [action EXCEPT ![r] = a]
    /\ Broadcast(r, active_connections, Translate(a), chan, unregistered)
    /\ UNCHANGED <<received, inbox, registered, order>>

\* send_text of line 38 returns normally; the loop goes on.
SendOk(t) ==
    /\ pc[t] = "send_text"
    /\ chan[connection[t]] = "open"
    /\ inbox' = [inbox EXCEPT ![connection[t]] = Deliver(@, t, message[t])]
    /\ LoopHead(t, active_connections, it[t], disconnected_sockets[t], chan, unregistered,
                [call[t] EXCEPT !.ok = @ \cup {connection[t]}])
    /\ UNCHANGED <<message, action, received, registered, order>>

\* Two ways the except clause of lines 39-41 could go wrong: the failed send
\* is awaited again without end, or it is retried.
SendClosedHang(t) ==
    /\ pc[t] = "send_text"
    /\ chan[connection[t]] = "closed"
    /\ UNCHANGED vars
SendClosedRetry(t) ==
    /\ pc[t] = "send_text"
    /\ chan[connection[t]] = "closed"
    /\ call' = [call EXCEPT ![t].tried = Append(@, connection[t])]
    /\ UNCHANGED <<active_connections, chan, pc, message, it, connection,
                   disconnected_sockets, action, ack, received, inbox,
                   registered, order, unregistered>>

\* send_text raises RuntimeError on a closed socket, lines 39-41.
SendClosed(t) ==
    /\ pc[t] = "send_text"
    /\ chan[connection[t]] = "closed"
    /\ LoopHead(t, active_connections, it[t],
                Append(disconnected_sockets[t], connection[t]), chan,
                unregistered, call[t])
    /\ UNCHANGED <<message, action, received, inbox, registered, order>>

\* send_text raises another exception, lines 42-45.
SendFault(t) ==
    /\ pc[t] = "send_text"
    /\ chan[connection[t]] = "open"
    /\ LoopHead(t, active_connections, it[t],
                Append(disconnected_sockets[t], connection[t]), chan,
                unregistered, call[t])
    /\ UNCHANGED <<message, action, received, inbox, registered, order>>

Next ==
    \/ \E s \in Sessions : Connect(s)
    \/ \E s \in Sessions : AcceptDone(s)
    \/ \E s \in Sessions : ClientClose(s)
    \/ \E s \in Sessions : ReceiveText(s)
    \/ \E s \in Sessions : RecvDisconnect(s)
    \/ \E s \in Sessions : RecvError(s)
    \/ \E r \in Requests, a \in Tokens : RejectAction(r, a)
    \/ \E r \in Requests, a \in Tokens : SendAction(r, a)
    \/ \E t \in Tasks : SendOk(t)
    \/ \E t \in Tasks : SendClosed(t)
    \/ \E t \in Tasks : SendFault(t)

Spec == Init /\ [][Next]_vars

\* The await of line 38 ends: the send returns or raises.
SendCompletes(t) == SendOk(t) \/ SendClosed(t) \/ SendFault(t)

\* The tokens posted in the runs checked for progress: one that is translated
\* and one that is rejected (which token is sent has no part in whether the
\* loop ends).
LiveTokens == {"left", "jump"}

LiveNext ==
    \/ \E s \in Sessions : Connect(s)
    \/ \E s \in Sessions : AcceptDone(s)
    \/ \E s \in Sessions : ClientClose(s)
    \/ \E s \in Sessions : ReceiveText(s)
    \/ \E s \in Sessions : RecvDisconnect(s)
    \/ \E s \in Sessions : RecvError(s)
    \/ \E r \in Requests, a \in LiveTokens : RejectAction(r, a)
    \/ \E r \in Requests, a \in LiveTokens : SendAction(r, a)
    \/ \E t \in Tasks : SendOk(t)
    \/ \E t \in Tasks : SendClosed(t)
    \/ \E t \in Tasks : SendFault(t)

\* The application under a fair event loop on which every send_text
\* eventually returns or raises.
LiveSpec == Init /\ [][LiveNext]_vars /\ \A t \in Tasks : WF_vars(SendCompletes(t))

(***************************************************************************)
(* Properties.                                                             *)
(***************************************************************************)

NoDuplicates(list) == \A i, j \in 1..Len(list) : list[i] = list[j] => i = j
Without(list, set) == SelectSeq(list, LAMBDA x : x \notin set)
Returned(t) == call[t].state = "returned"
\* The broadcast call of task t ran with no other registry operation between
\* its start and its return.
Undisturbed(t) == Returned(t) /\ ~call[t].dirty
Delivered(s, t) == \E i \in 1..Len(inbox[s]) : inbox[s][i] = <<t, call[t].msg>>
Terminated(s) == pc[s] \in {"done", "crashed"}

\* C1: a broadcast over N sessions in which K sends fail, with no other
\* registry operation interleaving, attempts all N, leaves exactly the K
\* failed ones out of the registry and the other N-K in it (in order), each
\* of which received the payload.
C1_ExactlyFailedRemoved ==
    \A t \in Tasks :
        Undisturbed(t) =>
            LET N == Range(call[t].start)
                K == Range(call[t].failed)
            IN /\ Range(call[t].tried) = N
               /\ K \subseteq N
               /\ call[t].after = Without(call[t].start, K)
               /\ call[t].ok = N \ K
               /\ \A s \in N \ K : Delivered(s, t)

C1_Witness ==
    \E t \in Tasks :
        /\ Undisturbed(t)
        /\ Len(call[t].start) = 2
        /\ Len(call[t].failed) = 1
        /\ Len(active_connections) = 1

C3_SendFailuresNeverEscalate ==
    /\ \A t \in Tasks : call[t].state # "raised"
    /\ \A r \in Requests : pc[r] = "done" => ack[r].status = "success"

C3_Witness ==
    \E r \in Requests :
        /\ pc[r] = "done"
        /\ ack[r].status = "success"
        /\ call[r].dirty
        /\ Len(call[r].failed) = 2

\* C4: every session in the registry when a broadcast call starts gets a send
\* attempt from that call.
C4_SnapshotBeforeIterate ==
    \A t \in Tasks : Returned(t) => Range(call[t].start) \subseteq Range(call[t].tried)

\* C5: a session registered while a broadcast call is in flight does not
\* receive that call's payload.
C5_LateJoinerNotServed ==
    \A t \in Tasks : call[t].ok \subseteq Range(call[t].start)

\* C6: disconnect() of a session that is not in the registry raises no error
\* (the session handler is not left by a ValueError).
C6_UnregisterIdempotent ==
    \A s \in Sessions : pc[s] # "crashed"

\* C7: no session appears twice in the registry, and the registry's size is
\* the number of distinct sessions registered minus the number of distinct
\* sessions unregistered, never negative.
C7_RegistrySize ==
    /\ NoDuplicates(active_connections)
    /\ Len(active_connections) = Cardinality(registered) - Cardinality(unregistered)
    /\ Cardinality(registered) >= Cardinality(unregistered)
    /\ Range(active_connections) = registered \ unregistered

C7_Witness ==
    /\ Cardinality(registered) = 2
    /\ Cardinality(unregistered) = 1
    /\ \E t \in Tasks : Returned(t) /\ Len(call[t].failed) = 1
    /\ \E s \in Sessions : pc[s] = "crashed"

\* C8: a joining session is in the registry when its join broadcast starts,
\* and that broadcast attempts a send to the joining session itself.
C8_JoinNotifiesJoiner ==
    \A s \in Sessions :
        call[s].msg = JoinMsg =>
            /\ Contains(call[s].start, s)
            /\ Returned(s) => Contains(call[s].tried, s)

\* C9: a session whose transport signalled a disconnect or an error is out of
\* the registry and has broadcast a leave notification to all the remaining
\* sessions and not to itself, also when a broadcast's cleanup had removed
\* it before.
C9_TerminationNotifiesRemaining ==
    \A s \in Sessions :
        Terminated(s) =>
            /\ ~Contains(active_connections, s)
            /\ call[s].msg \in {LeaveMsg, ErrorMsg}
            /\ ~Contains(call[s].tried, s)
            /\ Range(call[s].start) \subseteq Range(call[s].tried)

\* The translation table of the six commands.
WireToken ==
    [a \in ValidActions |->
        CASE a = "left" -> "right"
          [] a = "right" -> "left"
          [] a = "rotateForwards" -> "up"
          [] a = "rotateReverse" -> "down"
          [] a = "pull" -> "pull"
          [] a = "push" -> "push"]

\* C10: for each of the six commands, the payload send_action hands to
\* broadcast is the command's wire token, and the step that translates and
\* starts the broadcast leaves the registry as it was.
C10_TranslationTable ==
    [][\A r \in Requests :
          (pc[r] = "idle" /\ pc'[r] \in {"send_text", "done"}) =>
              /\ action'[r] \in ValidActions
              /\ message'[r] = WireToken[action'[r]]
              /\ call'[r].msg = WireToken[action'[r]]
              /\ call'[r].start = active_connections
              /\ active_connections' = active_connections]_vars

C10_Witness ==
    \E r \in Requests, s \in Sessions :
        /\ action[r] = "rotateForwards"
        /\ \E i \in 1..Len(inbox[s]) : inbox[s][i] = <<r, "up">>

\* C11: a token outside the six commands is rejected: the step that takes it
\* translates nothing, starts no broadcast, delivers nothing and leaves the
\* registry as it was, and the request never broadcasts afterwards.
C11_InvalidTokenRejected ==
    [][/\ \A r \in Requests :
            (pc[r] = "idle" /\ pc'[r] # "idle" /\ action'[r] \notin ValidActions) =>
                /\ pc'[r] = "rejected"
                /\ message' = message
                /\ call' = call
                /\ inbox' = inbox
                /\ active_connections' = active_connections
       /\ \A r \in Requests :
            pc'[r] = "rejected" =>
                /\ ack'[r].status = "rejected422"
                /\ message'[r] = ""
                /\ call'[r].state = "none"
                /\ \A s \in Sessions : \A i \in 1..Len(inbox'[s]) : inbox'[s][i][1] # r]_vars

C11_Witness ==
    \E r \in Requests :
        /\ pc[r] = "rejected"
        /\ action[r] = "jump"
        /\ Len(active_connections) = 2

\* C12 as stated: the count of the success acknowledgement is the number of
\* sessions that received the command's payload without error.
C12_AckCountsDelivered ==
    \A r \in Requests :
        ack[r].status = "success" => ack[r].count = Cardinality(call[r].ok)

\* C12 as amended: the count of the success acknowledgement is the size of the
\* registry when send_action returns (after the broadcast's cleanup); it is
\* the number of sessions that received the payload when no other registry
\* operation interleaved with the broadcast.
C12_AckCountsRegistry ==
    \A r \in Requests :
        ack[r].status = "success" =>
            /\ ack[r].count = Len(call[r].after)
            /\ ~call[r].dirty => ack[r].count = Cardinality(call[r].ok)

C12_Witness ==
    \E r \in Requests :
        /\ ack[r].status = "success"
        /\ action[r] = "push"
        /\ ~call[r].dirty
        /\ call[r].ok = {1, 2}
        /\ ack[r].count = 2

\* C13: the success acknowledgement names the translated action, the wire
\* token that was broadcast.
C13_AckNamesWireToken ==
    \A r \in Requests :
        ack[r].status = "success" => ack[r].action = call[r].msg

C16_NeverReused ==
    [][\A s \in Sessions :
          /\ (s \in registered /\ ~Contains(active_connections, s)) =>
                 ~Contains(active_connections', s)
          /\ Terminated(s) => pc'[s] = pc[s]]_vars

C16_Witness ==
    \E s, u \in Sessions :
        /\ Terminated(s)
        /\ s \in unregistered
        /\ s # u
        /\ Contains(active_connections, u)
        /\ \E i \in 1..Len(inbox[u]) : inbox[u][i][1] = s /\ inbox[u][i][2] # JoinMsg

\* The place of a registered session in the order of registration.
Place(x) == CHOOSE i \in 1..Len(order) : order[i] = x

\* C17: within one broadcast call the sessions are attempted in the order
\* they were registered, and one send at a time: every attempt but the one
\* in flight has ended, in success or in failure.
C17_SequentialInOrder ==
    \A t \in Tasks :
        /\ \A i, j \in 1..Len(call[t].tried) :
               i < j => Place(call[t].tried[i]) < Place(call[t].tried[j])
        /\ call[t].state = "running" =>
               /\ pc[t] = "send_text"
               /\ Len(call[t].tried) =
                      Cardinality(call[t].ok) + Len(disconnected_sockets[t]) + 1
        /\ Returned(t) =>
               Len(call[t].tried) = Cardinality(call[t].ok) + Len(call[t].failed)

C17_Witness ==
    \E t \in Tasks :
        /\ Returned(t)
        /\ call[t].tried = <<2, 1>>
        /\ call[t].failed = <<2>>
        /\ call[t].ok = {1}

\* C18: within one broadcast call no session is attempted more than once,
\* and a session whose send failed is not sent the payload by that call.
C18_AtMostOnce ==
    \A t \in Tasks :
        /\ NoDuplicates(call[t].tried)
        /\ Range(disconnected_sockets[t]) \cap call[t].ok = {}
        /\ Range(call[t].failed) \cap call[t].ok = {}
        /\ \A s \in Sessions :
               Cardinality({i \in 1..Len(inbox[s]) : inbox[s][i] = <<t, call[t].msg>>}) <= 1

C18_Witness ==
    \E t \in Tasks :
        /\ Returned(t)
        /\ call[t].dirty
        /\ Len(call[t].failed) = 1
        /\ Cardinality(call[t].ok) = 1

\* C19: when two broadcast calls, or a broadcast call and a termination
\* handler, have the same failed session to remove, no cleanup raises, the
\* session is out of the registry after each of them and only one of them
\* removed it.
C19_CleanupRemovesOnce ==
    /\ \A t \in Tasks : call[t].state \in {"none", "running", "returned"}
    /\ \A t \in Tasks :
           Returned(t) =>
               /\ call[t].removed \subseteq Range(call[t].failed)
               /\ \A s \in Range(call[t].failed) :
                      /\ ~Contains(call[t].after, s)
                      /\ s \in unregistered
    /\ \A t, u \in Tasks : t # u => call[t].removed \cap call[u].removed = {}

C19_Witness ==
    \E t, u \in Tasks : \E s \in Sessions :
        /\ t # u
        /\ Returned(t) /\ Returned(u)
        /\ Contains(call[t].failed, s) /\ Contains(call[u].failed, s)
        /\ s \in call[t].removed
        /\ s \notin call[u].removed

\* The places of a call's payload in a session's inbox.
Places(s, id) == {i \in 1..Len(inbox[s]) : inbox[s][i] = id}
CallIds == UNION {Range(inbox[s]) : s \in Sessions}

\* C20 as stated: two sessions that both receive the payloads of the same two
\* broadcast calls (payloads a client can tell apart) receive them in the
\* same relative order.
C20_SameRelativeOrder ==
    \A s1, s2 \in Sessions : \A a, b \in CallIds :
        a[2] # b[2] =>
            \A i1 \in Places(s1, a), j1 \in Places(s1, b),
               i2 \in Places(s2, a), j2 \in Places(s2, b) :
                (i1 < j1) <=> (i2 < j2)

\* C20 as amended: when one broadcast call has returned before another starts,
\* every session that receives both payloads receives the earlier call's
\* first (so all sessions agree on their order); calls that overlap may reach
\* two sessions in opposite orders.
C20_NonOverlappingInOrder ==
    \A u \in Tasks : \A id \in call[u].before : \A s \in Sessions :
        \A i \in Places(s, id), j \in Places(s, <<u, call[u].msg>>) : i < j

C20_Witness ==
    \E u \in Requests : \E id \in call[u].before : \E s \in Sessions :
        /\ Places(s, id) # {}
        /\ Places(s, <<u, call[u].msg>>) # {}

====
